---------------------------- MODULE Spec2Model ----------------------------
(***************************************************************************)
(* Model of the asetta-mcp server: the configuration read from the command *)
(* line when config.ts is loaded, the WalletAgent, the MCP callback that   *)
(* createMcpServer wraps around every tool handler, and the handlers of    *)
(* the tool catalog as sequences of awaited network calls.                 *)
(*                                                                         *)
(* One step of a handler is one resumption of the async function: the      *)
(* network answers an outstanding call and the handler runs on, through    *)
(* its catch and finally blocks if need be, up to its next await or to     *)
(* the MCP response.  Values read from the chain are abstracted to the     *)
(* classes the handlers branch on, except for the balances, gas figures,   *)
(* allowances and fees that the handlers compute with: those are numbers.  *)
(***************************************************************************)
EXTENDS Integers, Sequences, FiniteSets, TLC

VARIABLES
    argv,        \* the parsed command line flags (getArgs)
    proc,        \* position of the process: "load", "main", "serving"; "exited": the import threw
                 \* 'Invalid network'; "failed": the import threw another error
    network,     \* config.ts: export const network
    networkInfo, \* config.ts: export const networkInfo
    account,     \* config.ts: export const account
    agentMode,   \* config.ts: export const agentMode
    accessKey,   \* config.ts: export const accessKey
    publicClient,\* config.ts: export const publicClient
    walletClient,\* config.ts: export const walletClient
    generated,   \* number of private keys generatePrivateKey has produced
    agent,       \* the agent created by main() and closed over by every callback
    tools,       \* names of the tools registered by createMcpServer
    inv,         \* the invocation in progress, or Idle
    served,      \* number of requests dispatched so far
    failedBefore,\* TRUE once an invocation in which a call failed has been answered
    overridden   \* TRUE once an invocation has worked on another network than the configured one

vars == <<argv, proc, network, networkInfo, account, agentMode, accessKey,
          publicClient, walletClient, generated, agent, tools, inv, served,
          failedBefore, overridden>>

configVars == <<network, networkInfo, account, agentMode, accessKey,
                publicClient, walletClient>>

(***************************************************************************)
(* Bounds                                                                  *)
(***************************************************************************)
\* requests the transport delivers in one run of the process
MaxRequests == 2

\* longest targetChains list given to asetta_connect_ccip_chains
MaxTargets == 2

\* decimals of the native currency and of the tokens; the chains have 18,
\* the model counts in a coarser unit
EtherDecimals == 1

(***************************************************************************)
(* config.ts                                                               *)
(***************************************************************************)
None == "none"

NetworkType == {"avalancheFuji", "ethereumSepolia", "arbitrumSepolia"}

networkConfigs ==
    [n \in NetworkType |->
        CASE n = "avalancheFuji"   -> [rpcProviderUrl |-> "avalanche-fuji.drpc.org",
                                        chainId |-> 43113, nativeCurrency |-> "AVAX"]
          [] n = "ethereumSepolia" -> [rpcProviderUrl |-> "sepolia.drpc.org",
                                        chainId |-> 11155111, nativeCurrency |-> "ETH"]
          [] n = "arbitrumSepolia" -> [rpcProviderUrl |-> "arbitrum-sepolia.drpc.org",
                                        chainId |-> 421614, nativeCurrency |-> "ETH"]]

\* getArgs: the value of each flag, None when the flag is absent.  A flag
\* given without "=" has the value true, one given as "--flag=" the empty
\* string.  The key and access key flags are varied with the network flag
\* absent or ethereumSepolia; the other networks run with one key.
ArgvSet ==
    {a \in [network : NetworkType \cup {None, "", "true", "mainnet", "toString"},
             wallet_private_key : {None, "k1"},
             agent_mode : {None, "legal", "tokenization"},
             access_key : {None, "ak"}] :
        a.network \in {"", "avalancheFuji", "arbitrumSepolia"} =>
            (a.wallet_private_key = "k1" /\ a.access_key = None)}

\* a value that an if (value) takes as true
Truthy(value) == value # None /\ value # ""

\* names every object literal inherits from Object.prototype
InheritedNames == {"toString", "constructor", "valueOf", "hasOwnProperty"}

\* key in networkConfigs: own and inherited properties
InNetworkConfigs(key) == key \in DOMAIN networkConfigs \cup InheritedNames

\* getNetwork: the flag when it is truthy and a property of networkConfigs,
\* the default when it is absent or empty, an 'Invalid network' Error otherwise
getNetworkThrows(args) ==
    Truthy(args.network) /\ ~InNetworkConfigs(args.network)

getNetwork(args) ==
    IF Truthy(args.network) THEN args.network ELSE "avalancheFuji"

\* privateKeyToAccount: the address is a function of the key
privateKeyToAccount(key) == [key |-> key, address |-> <<"addressOf", key>>]

\* generatePrivateKey: the n-th key drawn from the random source
generatePrivateKey(n) == <<"ephemeral", n>>

\* getAccount: a fresh key when the flag is absent, the flag's key otherwise
getAccount(args, n) ==
    IF args.wallet_private_key = None
    THEN privateKeyToAccount(generatePrivateKey(n + 1))
    ELSE privateKeyToAccount(<<"0x", args.wallet_private_key>>)

getAccountDraws(args) == IF args.wallet_private_key = None THEN 1 ELSE 0

\* createPublicClient / createWalletClient over a chain and an http transport
createPublicClient(cfg) ==
    [chain |-> cfg.chainId, transport |-> cfg.rpcProviderUrl]

createWalletClient(cfg, acct) ==
    [chain |-> cfg.chainId, transport |-> cfg.rpcProviderUrl, account |-> acct]

\* createClientForNetwork: fresh clients for another network, signing with
\* the module's account
createClientForNetwork(networkType) ==
    LET config == networkConfigs[networkType] IN
    [publicClient |-> createPublicClient(config),
     walletClient |-> createWalletClient(config, account),
     networkInfo  |-> config]

Unset == [unset |-> TRUE]

Idle == [phase |-> "idle"]

Init ==
    /\ argv \in ArgvSet
    /\ proc = "load"
    /\ network = Unset /\ networkInfo = Unset /\ account = Unset
    /\ agentMode = Unset /\ accessKey = Unset
    /\ publicClient = Unset /\ walletClient = Unset
    /\ generated = 0
    /\ agent = Unset
    /\ tools = {}
    /\ inv = Idle
    /\ served = 0
    /\ failedBefore = FALSE
    /\ overridden = FALSE

\* Evaluation of config.ts when it is first imported: the exported constants
\* are computed once; an invalid --network makes the import throw.  A
\* --network that names an inherited property passes getNetwork; networkInfo
\* then has no chain and no RPC URL, and the client constructor, given a
\* transport without URL, throws.
LoadConfig ==
    /\ proc = "load"
    /\ IF getNetworkThrows(argv)
       THEN /\ proc' = "exited"
            /\ UNCHANGED <<configVars, generated>>
       ELSE IF getNetwork(argv) \notin DOMAIN networkConfigs
       THEN /\ proc' = "failed"
            /\ network' = getNetwork(argv)
            /\ networkInfo' = [rpcProviderUrl |-> "undefined"]
            /\ account' = getAccount(argv, generated)
            /\ generated' = generated + getAccountDraws(argv)
            /\ agentMode' = argv.agent_mode
            /\ accessKey' = argv.access_key
            /\ UNCHANGED <<publicClient, walletClient>>
       ELSE LET acct == getAccount(argv, generated)
                info == networkConfigs[getNetwork(argv)] IN
            /\ proc' = "main"
            /\ network' = getNetwork(argv)
            /\ networkInfo' = info
            /\ account' = acct
            /\ generated' = generated + getAccountDraws(argv)
            /\ agentMode' = argv.agent_mode
            /\ accessKey' = argv.access_key
            /\ publicClient' = createPublicClient(info)
            /\ walletClient' = createWalletClient(info, acct)
    /\ UNCHANGED <<argv, agent, tools, inv, served, failedBefore, overridden>>


(***************************************************************************)
(* agent/wallet.ts and index.ts (main, createMcpServer)                    *)
(***************************************************************************)
\* a WalletAgent that takes the clients of the named network but keeps the
\* configured network's name
WalletAgentStaleName(networkType) ==
    IF networkType # None /\ networkType # network
    THEN LET clients == createClientForNetwork(networkType) IN
         [publicClient |-> clients.publicClient,
          walletClient |-> clients.walletClient,
          networkInfo  |-> clients.networkInfo,
          network      |-> network,
          account      |-> account]
    ELSE [walletClient |-> walletClient,
          publicClient |-> publicClient,
          network      |-> network,
          networkInfo  |-> networkInfo,
          account      |-> account]

\* new WalletAgent(networkType): clients of another network when one is
\* named that differs from the configured one, the module's clients otherwise
WalletAgent(networkType) ==
    IF networkType # None /\ networkType # network
    THEN LET clients == createClientForNetwork(networkType) IN
         [publicClient |-> clients.publicClient,
          walletClient |-> clients.walletClient,
          networkInfo  |-> clients.networkInfo,
          network      |-> networkType,
          account      |-> account]
    ELSE [walletClient |-> walletClient,
          publicClient |-> publicClient,
          network      |-> network,
          networkInfo  |-> networkInfo,
          account      |-> account]

\* a validateEnvironment that keeps the account its getAccount call returns
validateEnvironmentReplacing(args, acct, n) ==
    IF args.agent_mode = "tokenization"
    THEN [account |-> getAccount(args, n), generated |-> n + getAccountDraws(args)]
    ELSE [account |-> acct, generated |-> n]

\* validateEnvironment: in tokenization mode it calls getNetwork and
\* getAccount again and drops what they return; the value is the module's
\* account afterwards and the number of keys drawn so far
validateEnvironment(args, acct, n) ==
    IF args.agent_mode = "tokenization"
    THEN [account |-> acct, generated |-> n + getAccountDraws(args)]
    ELSE [account |-> acct, generated |-> n]

\* the tool set createMcpServer registers
WalletToolNames ==
    {"asetta_send_native_ip", "asetta_approve_token", "asetta_check_allowance",
     "asetta_send_token", "asetta_mint_usdc", "asetta_get_usdc_balance",
     "asetta_get_wallet_info", "asetta_get_account_balances",
     "asetta_get_token_info", "asetta_get_rwa_project",
     "asetta_update_project_status", "asetta_create_rwa_token",
     "asetta_configure_ccip", "asetta_mark_ccip_configured",
     "asetta_register_primary_sales", "asetta_activate_primary_sales",
     "asetta_deploy_ccip_pool", "asetta_configure_ccip_roles",
     "asetta_connect_ccip_chains", "asetta_validate_ccip_setup",
     "asetta_mint_rwa_token", "asetta_transfer_rwa_cross_chain",
     "asetta_get_cross_chain_fee", "asetta_approve_ccip_router",
     "asetta_get_chain_selectors"}

ApiToolNames ==
    {"asetta_get_profile", "asetta_create_rwa_project",
     "asetta_get_rwa_projects", "asetta_update_project_status"}

\* a registry choice that serves the API tools only in legal mode
finalToolsUnlessLegal(mode) ==
    IF mode = "legal" THEN ApiToolNames ELSE WalletToolNames

finalTools(mode) ==
    IF mode = "tokenization" THEN WalletToolNames ELSE ApiToolNames

\* main(): validateEnvironment, the agent for the mode, createMcpServer,
\* server.connect; an exception ends the process
Main ==
    /\ proc = "main"
    /\ LET v == validateEnvironment(argv, account, generated) IN
       /\ account' = v.account
       /\ generated' = v.generated
    /\ UNCHANGED <<argv, network, networkInfo, agentMode, accessKey,
                   publicClient, walletClient, inv, served,
                   failedBefore, overridden>>
    /\ agent' = IF agentMode = "tokenization"
                THEN WalletAgent(None)'
                ELSE [kind |-> "ApiAgent"]
    /\ tools' = finalTools(agentMode)
    /\ proc' = "serving"


(***************************************************************************)
(* The tool handlers.  A handler is the list of its awaits (stages); each  *)
(* stage names the calls it issues (several for a Promise.all), the try    *)
(* block it sits in and what the handler does with the answer.             *)
(***************************************************************************)
Call(name, kind) == [name |-> name, kind |-> kind]

\* an await in the handler's outer scope whose answer is only passed on
Stage(calls) ==
    [calls   |-> calls,      \* calls issued together and awaited
     try     |-> "outer",    \* "inner": inside a try/catch of its own that swallows
     next    |-> 0,          \* inner: the stage after that try/catch statement
     flag    |-> None,       \* result flag set when the stage ends normally
     push    |-> FALSE,      \* the hash is pushed to transaction_hashes with the flag
     when    |-> "always",   \* condition under which the stage is executed
     pre     |-> None,       \* check made before the calls; the handler throws if it fails
     alt     |-> None,       \* what the handler may do on the data read: "throw", "return", "unflag"
     keep    |-> {},         \* the calls whose answer is a number the handler keeps in a variable
     check   |-> None,       \* the comparison of kept numbers on which the handler takes alt
     receipt |-> "ignored"]  \* receipt.status: "ignored", "throw" when reverted, "mark" (branch on it)

Read(name)  == Stage(<<Call(name, "read")>>)
Write(name) == Stage(<<Call(name, "write")>>)
Wait(name)  == Stage(<<Call(name, "wait")>>)
All(names)  == Stage([k \in 1..Len(names) |-> Call(names[k], "read")])

\* walletAgent.connect(): one getChainId read through the agent's publicClient
Connect == Read("getChainId")

\* a handler of the shape  try { agent; connect; ... } catch { throw new Error }
\* finally { agent.disconnect() }
Handler(stages) ==
    [agent   |-> "optional",  \* "optional": input.network ? new : agent; "required": network !== agent.network ? new : agent; "default"; "unused"
     tryFrom |-> 1,           \* first stage inside the handler's try block
     catch   |-> "rethrow",   \* "rethrow": throw new Error(prefix + message); "envelope": return {status: "error"}
     finally |-> TRUE,        \* finally { await agent.disconnect() }
     ok      |-> "success",   \* status of the value returned at the end
     stages  |-> stages]

\* a transfer that checks the balance against the amount only
SendETHToolBalanceOnly ==
    Handler(<<Connect,
              [Read("getBalance") EXCEPT !.alt = "throw", !.keep = {"getBalance"},
                                         !.check = "balance < amount"],
              [Read("estimateGas") EXCEPT !.keep = {"estimateGas"}],
              [Read("getGasPrice") EXCEPT !.keep = {"getGasPrice"}],
              Write("sendTransaction"),
              Wait("sendTransaction")>>)

\* balance < amount throws; balance < amount + gasEstimate * gasPrice throws
SendETHTool ==
    Handler(<<Connect,
              [Read("getBalance") EXCEPT !.alt = "throw", !.keep = {"getBalance"},
                                         !.check = "balance < amount"],
              [Read("estimateGas") EXCEPT !.keep = {"estimateGas"}],
              [Read("getGasPrice") EXCEPT !.alt = "throw", !.keep = {"getGasPrice"},
                                          !.check = "balance < amount + gasCost"],
              Write("sendTransaction"),
              Wait("sendTransaction")>>)

\* currentAllowance >= amount && amount !== maxUint256 returns early
ApproveTokenTool ==
    Handler(<<Connect,
              [All(<<"allowance", "symbol", "balanceOf">>)
                  EXCEPT !.alt = "return", !.keep = {"allowance"},
                         !.check = "currentAllowance >= amount"],
              Read("simulateContract"),
              Write("approve"),
              Wait("approve"),
              Read("allowance")>>)

CheckAllowanceTool ==
    Handler(<<Connect,
              All(<<"allowance", "balanceOf", "symbol", "decimals", "name">>)>>)

SendTokenTool ==
    Handler(<<Connect,
              [All(<<"balanceOf", "symbol", "decimals">>) EXCEPT !.alt = "throw"],
              Read("simulateContract"),
              Write("transfer"),
              Wait("transfer")>>)

\* a mint that does not await the write before it waits for the receipt
MintUSDCToolUnawaited ==
    Handler(<<Connect,
              All(<<"balanceOf", "symbol">>),
              Read("simulateContract"),
              Stage(<<Call("mint", "write"), Call("mint", "wait")>>),
              Read("balanceOf")>>)

MintUSDCTool ==
    Handler(<<Connect,
              All(<<"balanceOf", "symbol">>),
              Read("simulateContract"),
              Write("mint"),
              Wait("mint"),
              Read("balanceOf")>>)

GetUSDCBalanceTool ==
    Handler(<<Connect, All(<<"balanceOf", "symbol", "decimals", "name">>)>>)

GetWalletInfoTool ==
    Handler(<<Connect, Read("getBalance"), Read("getChainId")>>)

GetAccountBalancesTool ==
    Handler(<<Connect,
              Read("getBalance"),
              [All(<<"balanceOf", "decimals">>) EXCEPT !.try = "inner", !.next = 4]>>)

GetTokenInfoTool ==
    Handler(<<Connect,
              All(<<"name", "symbol", "decimals", "totalSupply", "balanceOf">>),
              Read("getBytecode")>>)

GetRwaProjectTool ==
    [Handler(<<Connect, [Read("getProject") EXCEPT !.alt = "throw"]>>)
        EXCEPT !.agent = "default"]

CreateRwaTokenTool ==
    Handler(<<Connect, Write("createRWAToken"), Wait("createRWAToken")>>)

MintRwaTokenTool ==
    Handler(<<Connect, Write("mint")>>)

\* a transfer that refuses when the balance it reads does not cover the fee
TransferDecliningOnFee ==
    Handler(<<Connect, [Read("getFee") EXCEPT !.keep = {"getFee"}],
              [Read("getBalance") EXCEPT !.alt = "throw"],
              Write("ccipSend"), Wait("ccipSend")>>)

TransferRwaTokenCrossChainTool ==
    Handler(<<Connect, [Read("getFee") EXCEPT !.keep = {"getFee"}],
              Write("ccipSend"), Wait("ccipSend")>>)

GetCrossChainFeeTool ==
    Handler(<<Connect, [Read("getFee") EXCEPT !.keep = {"getFee"}]>>)

ApproveRouterTool ==
    Handler(<<Connect,
              Write("approve"),
              Wait("approve"),
              [Write("approveLink") EXCEPT !.when = "option", !.try = "inner", !.next = 6],
              [Wait("approveLink") EXCEPT !.when = "option", !.try = "inner", !.next = 6]>>)

GetChainSelectorsTool ==
    [Handler(<<>>) EXCEPT !.agent = "unused", !.finally = FALSE]

\* connect before the try, the contract call inside it, no finally
MarkCCIPConfiguredTool ==
    [Handler(<<Connect, Write("markCCIPConfigured"), Wait("markCCIPConfigured")>>)
        EXCEPT !.tryFrom = 2, !.catch = "envelope", !.finally = FALSE]

RegisterPrimarySalesTool ==
    [Handler(<<Connect, Write("registerForPrimarySales"), Wait("registerForPrimarySales")>>)
        EXCEPT !.tryFrom = 2, !.catch = "envelope", !.finally = FALSE]

ActivatePrimarySalesTool ==
    [Handler(<<Connect, Write("activatePrimarySales"), Wait("activatePrimarySales")>>)
        EXCEPT !.tryFrom = 2, !.catch = "envelope", !.finally = FALSE]

\* no try block at all
ConfigureCCIPTool ==
    [Handler(<<Connect>>)
        EXCEPT !.tryFrom = 2, !.finally = FALSE, !.ok = "instructions"]

DeployCCIPPoolTool ==
    [Handler(<<Connect,
               Write("deployContract"),
               [Wait("deployContract") EXCEPT !.receipt = "throw", !.alt = "throw"]>>)
        EXCEPT !.agent = "required", !.catch = "envelope"]

\* a step whose failure abandons the remaining steps
RoleStepAborting(name, flag, next) ==
    <<[Write(name) EXCEPT !.try = "inner", !.next = 12],
      [Wait(name) EXCEPT !.try = "inner", !.next = 12, !.flag = flag, !.push = TRUE]>>

\* five steps, each a try of its own: write, wait, set the flag, push the hash
RoleStep(name, flag, next) ==
    <<[Write(name) EXCEPT !.try = "inner", !.next = next],
      [Wait(name) EXCEPT !.try = "inner", !.next = next, !.flag = flag, !.push = TRUE]>>

ConfigureCCIPRolesTool ==
    [Handler(<<Connect>>
             \o RoleStep("grantRole_MINTER", "minter_role_granted", 4)
             \o RoleStep("grantRole_BURNER", "burner_role_granted", 6)
             \o RoleStep("registerAdminViaGetCCIPAdmin", "admin_registered", 8)
             \o RoleStep("acceptAdminRole", "admin_accepted", 10)
             \o RoleStep("setPool", "pool_linked", 12))
        EXCEPT !.agent = "required", !.catch = "envelope"]

ConnectCCIPChainsTool ==
    [Handler(<<Connect,
               [Stage(<<>>) EXCEPT !.pre = "sourcePool"],
               [Write("applyChainUpdates") EXCEPT !.when = "chainUpdates", !.try = "inner", !.next = 5],
               [Wait("applyChainUpdates") EXCEPT !.when = "chainUpdates", !.try = "inner", !.next = 5,
                                                !.receipt = "mark"]>>)
        EXCEPT !.agent = "required", !.catch = "envelope"]

\* a validation that ends with a transaction instead of a read
ValidationWriting(names, flag, next) ==
    [k \in 1..Len(names) |->
        [(IF k = Len(names) THEN Write(names[k]) ELSE Read(names[k]))
            EXCEPT !.try = "inner", !.next = next,
                   !.flag = IF k = Len(names) THEN flag ELSE None,
                   !.alt = IF k = Len(names) THEN "unflag" ELSE None]]

\* six validations, each a try of its own around one or two reads
Validation(names, flag, next) ==
    [k \in 1..Len(names) |->
        [Read(names[k]) EXCEPT !.try = "inner", !.next = next,
                               !.flag = IF k = Len(names) THEN flag ELSE None,
                               !.alt = IF k = Len(names) THEN "unflag" ELSE None]]

ValidateCCIPSetupTool ==
    [Handler(<<Connect>>
             \o Validation(<<"MINTER_ROLE", "hasRole_MINTER">>, "minter", 4)
             \o Validation(<<"BURNER_ROLE", "hasRole_BURNER">>, "burner", 6)
             \o Validation(<<"getPool">>, "linked", 7)
             \o Validation(<<"getToken">>, "token", 8)
             \o <<[Validation(<<"getSupportedChains">>, "chains", 9)[1] EXCEPT !.when = "option"]>>
             \o Validation(<<"getRouter">>, "router", 10))
        EXCEPT !.agent = "required", !.catch = "envelope"]

\* the REST tools: the access key check, fetch, then the body
ApiHandler(name) ==
    [Handler(<<[Stage(<<Call(name, "http")>>) EXCEPT !.pre = "accessKey", !.alt = "throw"],
               Stage(<<Call("json", "body")>>)>>)
        EXCEPT !.agent = "unused", !.finally = FALSE]

GetProfileTool == ApiHandler("GET /api/profile")

CreateRwaProjectTool == ApiHandler("POST /api/project")

GetRwaProjectsTool == ApiHandler("GET /api/project")

UpdateProjectStatusTool == ApiHandler("PUT /api/project/{id}")

\* the registry: tool name -> tool
Tool(name) ==
    CASE name = "asetta_send_native_ip"           -> SendETHTool
      [] name = "asetta_approve_token"            -> ApproveTokenTool
      [] name = "asetta_check_allowance"          -> CheckAllowanceTool
      [] name = "asetta_send_token"               -> SendTokenTool
      [] name = "asetta_mint_usdc"                -> MintUSDCTool
      [] name = "asetta_get_usdc_balance"         -> GetUSDCBalanceTool
      [] name = "asetta_get_wallet_info"          -> GetWalletInfoTool
      [] name = "asetta_get_account_balances"     -> GetAccountBalancesTool
      [] name = "asetta_get_token_info"           -> GetTokenInfoTool
      [] name = "asetta_get_rwa_project"          -> GetRwaProjectTool
      [] name = "asetta_create_rwa_token"         -> CreateRwaTokenTool
      [] name = "asetta_configure_ccip"           -> ConfigureCCIPTool
      [] name = "asetta_mark_ccip_configured"     -> MarkCCIPConfiguredTool
      [] name = "asetta_register_primary_sales"   -> RegisterPrimarySalesTool
      [] name = "asetta_activate_primary_sales"   -> ActivatePrimarySalesTool
      [] name = "asetta_deploy_ccip_pool"         -> DeployCCIPPoolTool
      [] name = "asetta_configure_ccip_roles"     -> ConfigureCCIPRolesTool
      [] name = "asetta_connect_ccip_chains"      -> ConnectCCIPChainsTool
      [] name = "asetta_validate_ccip_setup"      -> ValidateCCIPSetupTool
      [] name = "asetta_mint_rwa_token"           -> MintRwaTokenTool
      [] name = "asetta_transfer_rwa_cross_chain" -> TransferRwaTokenCrossChainTool
      [] name = "asetta_get_cross_chain_fee"      -> GetCrossChainFeeTool
      [] name = "asetta_approve_ccip_router"      -> ApproveRouterTool
      [] name = "asetta_get_chain_selectors"      -> GetChainSelectorsTool
      [] name = "asetta_get_profile"              -> GetProfileTool
      [] name = "asetta_create_rwa_project"       -> CreateRwaProjectTool
      [] name = "asetta_get_rwa_projects"         -> GetRwaProjectsTool
      [] name = "asetta_update_project_status"    -> UpdateProjectStatusTool


(***************************************************************************)
(* Tool inputs that pass the schema                                        *)
(***************************************************************************)
RECURSIVE SeqsUpTo(_, _)
SeqsUpTo(S, n) ==
    IF n = 0 THEN {<<>>}
    ELSE LET shorter == SeqsUpTo(S, n - 1) IN
         shorter \cup {Append(q, x) : q \in {r \in shorter : Len(r) = n - 1}, x \in S}

\* an optional value of a type other than string: <<>> when it is absent
\* (undefined), <<v>> when it is v
Optional(S) == {<<>>} \cup {<<v>> : v \in S}

\* property access: rec.field, undefined when rec has no such property
Get(rec, field) == IF field \in DOMAIN rec THEN <<rec[field]>> ELSE <<>>

\* z.<type>().default(dflt): the parsed value of an optional argument
Default(value, dflt) == IF value = <<>> THEN dflt ELSE value[1]

NoInput ==
    [network |-> None, option |-> FALSE, access_key |-> None,
     targetChains |-> <<>>, poolAddresses |-> {}, tokenAddresses |-> {},
     encodable |-> TRUE, rateLimitConfig |-> <<>>,
     amount |-> <<>>, unlimited |-> <<>>,
     fee_token_address |-> None, use_native_fee |-> <<>>, gas_limit |-> <<>>,
     to |-> None, destination_account |-> None,
     token_address |-> None, destination_chain_selector |-> None]

UsesOption(name) == \E k \in DOMAIN Tool(name).stages : Tool(name).stages[k].when = "option"

UsesAccessKey(name) == \E k \in DOMAIN Tool(name).stages : Tool(name).stages[k].pre = "accessKey"

\* the amounts a caller asks for, in whole tokens
Amounts == {1, 2}

ZeroAddress == "0x0000000000000000000000000000000000000000"

\* the targetChains lists a caller may give
TargetLists == SeqsUpTo(NetworkType, MaxTargets)

\* the arguments of a tool beside network, for which the handlers differ
ToolInputs(name) ==
    CASE name = "asetta_connect_ccip_chains" ->
            \* addresses are given for every chain or lack one; rateLimitConfig
            \* is omitted, given in whole numbers, or given with a fraction
            \* (capacity 500.5), which BigInt cannot encode
            {[NoInput EXCEPT !.targetChains = t, !.poolAddresses = a.pools,
                             !.tokenAddresses = a.pools \cap a.tokens,
                             !.rateLimitConfig = IF a.limits = "omitted" THEN <<>>
                                                 ELSE <<[capacity |-> 500, rate |-> 5]>>,
                             !.encodable = (a.limits # "fraction")] :
                t \in TargetLists,
                a \in {[pools |-> NetworkType, tokens |-> NetworkType, limits |-> r] :
                          r \in {"omitted", "whole", "fraction"}}
                      \cup {[pools |-> NetworkType \ {"arbitrumSepolia"},
                             tokens |-> NetworkType, limits |-> "omitted"],
                            [pools |-> NetworkType,
                             tokens |-> NetworkType \ {"ethereumSepolia"},
                             limits |-> "omitted"]}}
      [] name = "asetta_send_native_ip" ->
            {[NoInput EXCEPT !.amount = <<a>>, !.to = "0xD"] : a \in Amounts}
      [] name = "asetta_approve_token" ->
            {[NoInput EXCEPT !.amount = a, !.unlimited = u] :
                a \in Optional(Amounts), u \in Optional(BOOLEAN)}
      [] name = "asetta_transfer_rwa_cross_chain" ->
            {[NoInput EXCEPT !.amount = <<1>>, !.to = "0xD",
                             !.token_address = "0xRWA",
                             !.destination_chain_selector = "16015286601757825753",
                             !.fee_token_address = f, !.use_native_fee = u,
                             !.gas_limit = g] :
                f \in {None, ZeroAddress, "0xFEE"},
                u \in {<<>>, <<FALSE>>}, g \in {<<>>, <<3>>}}
      [] name = "asetta_get_cross_chain_fee" ->
            {[NoInput EXCEPT !.amount = <<1>>, !.destination_account = "0xD",
                             !.token_address = "0xRWA",
                             !.destination_chain_selector = "16015286601757825753",
                             !.fee_token_address = f, !.use_native_fee = u,
                             !.gas_limit = g] :
                f \in {None, ZeroAddress, "0xFEE"},
                u \in {<<>>, <<FALSE>>}, g \in {<<>>, <<3>>}}
      [] OTHER -> {NoInput}

InputsOf(name) ==
    {[x EXCEPT !.network = n, !.option = o, !.access_key = a] :
        x \in ToolInputs(name),
        n \in CASE Tool(name).agent = "optional" -> NetworkType \cup {None}
                [] Tool(name).agent = "required" -> NetworkType
                [] OTHER -> {None},
        o \in IF UsesOption(name) THEN BOOLEAN ELSE {FALSE},
        a \in IF UsesAccessKey(name) THEN {None, "ak2"} ELSE {None}}

\* the requests the transport may deliver: tool name -> the inputs that pass
\* the tool's schema
Requests == [name \in WalletToolNames \cup ApiToolNames |-> InputsOf(name)]

(***************************************************************************)
(* ConnectCCIPChainsTool: the loops over targetChains                      *)
(***************************************************************************)
\* the targets for which the first loop builds a chain update: those that
\* are not the source and have both addresses, when the rate limits can be
\* encoded (BigInt of a number that is no integer throws, for every target)
chainUpdates(input) ==
    LET Valid(t) == /\ t # input.network
                    /\ t \in input.poolAddresses
                    /\ t \in input.tokenAddresses
                    /\ input.encodable
    IN SelectSeq(input.targetChains, Valid)

DEFAULT_RATE_LIMIT_CONFIG == [isEnabled |-> TRUE, capacity |-> 100000, rate |-> 167]

\* const rateLimits = rateLimitConfig || DEFAULT_RATE_LIMIT_CONFIG
rateLimits(input) ==
    IF input.rateLimitConfig # <<>> THEN input.rateLimitConfig[1]
    ELSE DEFAULT_RATE_LIMIT_CONFIG

\* the chain update the first loop builds for a target; both limiters are
\* filled from rateLimits, whatever properties it has
chainUpdate(input, targetChain) ==
    LET limiter == [isEnabled |-> Get(rateLimits(input), "isEnabled"),
                    capacity  |-> Get(rateLimits(input), "capacity"),
                    rate      |-> Get(rateLimits(input), "rate")]
    IN [remoteChainSelector |-> <<"selector", targetChain>>,
        remotePoolAddresses |-> <<<<"address", "pool", targetChain>>>>,
        remoteTokenAddress  |-> <<"address", "token", targetChain>>,
        outboundRateLimiterConfig |-> limiter,
        inboundRateLimiterConfig  |-> limiter]

\* the connections the first loop pushes for the targets it skips
skippedConnections(input) ==
    LET Skipped(t) == \/ t = input.network
                      \/ t \notin input.poolAddresses
                      \/ t \notin input.tokenAddresses
                      \/ ~input.encodable
        skipped == SelectSeq(input.targetChains, Skipped)
    IN [k \in 1..Len(skipped) |-> [target_chain |-> skipped[k], connected |-> FALSE]]

\* a marking loop that marks every target but the source
appliedConnectionsAllMarked(input, txState) ==
    LET NotSource(t) == t # input.network
        ts == CASE txState = "none" -> <<>>
                [] OTHER            -> SelectSeq(input.targetChains, NotSource)
    IN [k \in 1..Len(ts) |-> [target_chain |-> ts[k], connected |-> (txState = "success")]]

\* the connections pushed after applyChainUpdates: txState is "success",
\* "reverted", "threw" or "none" (no transaction was sent)
appliedConnections(input, txState) ==
    LET Marked(t) == /\ t # input.network
                     /\ t \in input.poolAddresses
                     /\ t \in input.tokenAddresses
        NotSource(t) == t # input.network
        ts == CASE txState = "success" -> SelectSeq(input.targetChains, Marked)
                [] txState = "none"    -> <<>>
                [] OTHER               -> SelectSeq(input.targetChains, NotSource)
    IN [k \in 1..Len(ts) |-> [target_chain |-> ts[k], connected |-> (txState = "success")]]

(***************************************************************************)
(* Amounts and the numbers read from the chain                             *)
(***************************************************************************)
\* viem parseEther: ether, a decimal number, in wei
parseEther(ether) == ether * 10^EtherDecimals

\* viem maxUint256, here the largest number the model counts to
maxUint256 == 2147483647

\* the numbers a call may answer with
Values(name) ==
    CASE name = "getBalance"  -> {0} \cup {parseEther(a) + d : a \in Amounts, d \in {0, 2}}
      [] name = "estimateGas" -> {1, 2}
      [] name = "getGasPrice" -> {1, 2}
      [] name = "allowance"   -> {0} \cup {parseEther(a) : a \in Amounts}
      [] name = "getFee"      -> {1, 2}

\* the number the handler keeps from the answer to the call name
Kept(i, name) == (CHOOSE d \in i.data : d[1] = name)[2]

\* ApproveTokenTool: the amount to approve
approveAmount(input) ==
    IF Default(input.unlimited, TRUE) \/ input.amount = <<>>
    THEN maxUint256
    ELSE parseEther(input.amount[1])

(***************************************************************************)
(* The CCIP message of the cross-chain transfer and of its fee quote       *)
(***************************************************************************)
CHAINLINK_NETWORKS ==
    [n \in NetworkType |->
        CASE n = "ethereumSepolia" ->
                [chainSelector |-> "16015286601757825753",
                 routerAddress |-> "0x0BF3dE8c5D3e8A2B34D2BEeB17ABfCeBaf363A59",
                 linkAddress   |-> "0x779877A7B0D9E8603169DdbD7836e478b4624789"]
          [] n = "arbitrumSepolia" ->
                [chainSelector |-> "3478487238524512106",
                 routerAddress |-> "0x2a9C5afB0d0e4BAb2BCdaE109EC4b0c4Be15a165",
                 linkAddress   |-> "0xb1D4538B4571d411F07960EF2838Ce337FE1E80E"]
          [] n = "avalancheFuji" ->
                [chainSelector |-> "14767482510784806043",
                 routerAddress |-> "0xF694E193200268f9a4868e4Aa017A0118C9a8177",
                 linkAddress   |-> "0x0b9d5D9136855f6FEc3c0993feE6E9CE8a297846"]]

\* viem encodeAbiParameters: the values, encoded as the listed types
encodeAbiParameters(types, values) == <<"abi", types, values>>

\* BigInt(Math.floor(amount * 1e18))
amountWei(amount) == amount * 10^EtherDecimals

\* asetta_transfer_rwa_cross_chain: useNativeForPayment
useNativeForPayment(input) ==
    ~Truthy(input.fee_token_address) /\ Default(input.use_native_fee, TRUE)

\* asetta_transfer_rwa_cross_chain: feeToken, custom > native > LINK
TransferFeeToken(networkType, input) ==
    IF Truthy(input.fee_token_address) THEN input.fee_token_address
    ELSE IF Default(input.use_native_fee, TRUE) THEN ZeroAddress
    ELSE CHAINLINK_NETWORKS[networkType].linkAddress

\* asetta_transfer_rwa_cross_chain: the message given to getFee and ccipSend
TransferMessage(networkType, input) ==
    [receiver |-> encodeAbiParameters(<<"address">>, <<input.to>>),
     data |-> <<>>,
     tokenAmounts |-> <<[token |-> input.token_address,
                         amount |-> amountWei(input.amount[1])]>>,
     feeToken |-> TransferFeeToken(networkType, input),
     extraArgs |-> IF Default(input.gas_limit, 0) = 0 THEN <<>>
                   ELSE encodeAbiParameters(<<"bytes4", "uint256", "bool">>,
                                            <<"0x97a657c9", Default(input.gas_limit, 0), FALSE>>)]

\* a fee quote that ignores a custom fee token
GetFeeMessageWithoutCustomToken(networkType, input) ==
    [receiver |-> encodeAbiParameters(<<"address">>, <<input.destination_account>>),
     data |-> <<>>,
     tokenAmounts |-> <<[token |-> input.token_address,
                         amount |-> amountWei(input.amount[1])]>>,
     feeToken |-> IF Default(input.use_native_fee, TRUE) THEN ZeroAddress
                  ELSE CHAINLINK_NETWORKS[networkType].linkAddress,
     extraArgs |-> IF Default(input.gas_limit, 0) = 0 THEN <<>>
                   ELSE encodeAbiParameters(<<"bytes4", "uint256", "bool">>,
                                            <<"0x97a657c9", Default(input.gas_limit, 0), FALSE>>)]

\* asetta_get_cross_chain_fee: the message given to getFee
GetFeeMessage(networkType, input) ==
    [receiver |-> encodeAbiParameters(<<"address">>, <<input.destination_account>>),
     data |-> <<>>,
     tokenAmounts |-> <<[token |-> input.token_address,
                         amount |-> amountWei(input.amount[1])]>>,
     feeToken |-> IF Truthy(input.fee_token_address) THEN input.fee_token_address
                  ELSE IF Default(input.use_native_fee, TRUE) THEN ZeroAddress
                  ELSE CHAINLINK_NETWORKS[networkType].linkAddress,
     extraArgs |-> IF Default(input.gas_limit, 0) = 0 THEN <<>>
                   ELSE encodeAbiParameters(<<"bytes4", "uint256", "bool">>,
                                            <<"0x97a657c9", Default(input.gas_limit, 0), FALSE>>)]

\* BigInt(destination_chain_selector)
BigInt(value) == <<"BigInt", value>>

\* the comparisons the handlers make on the numbers they have read
Takes(check, i) ==
    CASE check = "balance < amount" ->
            Kept(i, "getBalance") < parseEther(i.input.amount[1])
      [] check = "balance < amount + gasCost" ->
            Kept(i, "getBalance") < parseEther(i.input.amount[1])
                                    + Kept(i, "estimateGas") * Kept(i, "getGasPrice")
      [] check = "currentAllowance >= amount" ->
            /\ Kept(i, "allowance") >= approveAmount(i.input)
            /\ approveAmount(i.input) # maxUint256

(***************************************************************************)
(* Running a handler                                                       *)
(***************************************************************************)
\* a selection that switches the shared agent to the requested network
SelectAgentInPlace(how, ag, input) ==
    LET wa == CASE how = "optional" -> IF input.network # None THEN WalletAgent(input.network) ELSE ag
                [] how = "required" -> IF input.network # ag.network THEN WalletAgent(input.network) ELSE ag
                [] OTHER -> ag
    IN [walletAgent |-> wa, agent |-> wa]

\* the agent a handler works with, and the agent the callbacks keep
SelectAgent(how, ag, input) ==
    [walletAgent |->
        CASE how = "optional" -> IF input.network # None THEN WalletAgent(input.network) ELSE ag
          [] how = "required" -> IF input.network # ag.network THEN WalletAgent(input.network) ELSE ag
          [] OTHER -> ag,
     agent |-> ag]

\* JSON.stringify(result, null, 2)
Stringify(value) == <<"json", value>>

\* a callback that reports error.message of whatever was thrown
CallbackMessageOnly(outcome) ==
    IF outcome.kind = "return"
    THEN [content |-> <<[type |-> "text", text |-> Stringify(outcome.value)]>>]
    ELSE [isError |-> TRUE,
          content |-> <<[type |-> "text", text |-> outcome.error.message]>>]

\* the callback createMcpServer registers for a tool, applied to the way the
\* handler ended: [kind |-> "return", value |-> v] or [kind |-> "throw", error |-> e]
Callback(outcome) ==
    IF outcome.kind = "return"
    THEN [content |-> <<[type |-> "text", text |-> Stringify(outcome.value)]>>]
    ELSE [isError |-> TRUE,
          content |-> <<[type |-> "text",
                         text |-> IF outcome.error.instance
                                  THEN outcome.error.message
                                  ELSE <<"Unknown error occurred">>]>>]

Error(message) == [instance |-> TRUE, message |-> message]

\* what the network may throw: an Error, or some other value
Throwables == {Error(<<"request failed">>), [instance |-> FALSE, message |-> <<"undefined">>]}

\* error.message of a caught value
MessageOf(err) == IF err.instance THEN err.message ELSE <<"undefined">>

TxState(i, name) ==
    IF \E r \in i.receipts : r.name = name
    THEN (CHOOSE r \in i.receipts : r.name = name).status
    ELSE IF name \in i.caught THEN "threw" ELSE "none"

\* allConfigured computed without the pool link
AllRoleFlagsWithoutPool ==
    {"minter_role_granted", "burner_role_granted", "admin_registered", "admin_accepted"}

AllRoleFlags ==
    {"minter_role_granted", "burner_role_granted", "admin_registered",
     "admin_accepted", "pool_linked"}

\* the value a handler returns when it reaches its final return statement
ResultOf(i) ==
    CASE i.tool = "asetta_configure_ccip_roles" ->
            LET allConfigured == AllRoleFlags \subseteq i.flags IN
            [status |-> IF allConfigured THEN "success" ELSE "partial",
             message |-> IF allConfigured THEN "All CCIP roles and admin settings configured successfully"
                         ELSE "Some CCIP configurations failed",
             configuration_results |->
                [minter_role_granted |-> "minter_role_granted" \in i.flags,
                 burner_role_granted |-> "burner_role_granted" \in i.flags,
                 admin_registered    |-> "admin_registered" \in i.flags,
                 admin_accepted      |-> "admin_accepted" \in i.flags,
                 pool_linked         |-> "pool_linked" \in i.flags,
                 total_transactions  |-> Len(i.hashes),
                 transaction_hashes  |-> i.hashes]]
      [] i.tool = "asetta_connect_ccip_chains" ->
            LET connections == skippedConnections(i.input)
                               \o appliedConnections(i.input, TxState(i, "applyChainUpdates"))
                successful == SelectSeq(connections, LAMBDA c : c.connected)
                failed == SelectSeq(connections, LAMBDA c : ~c.connected)
            IN [status |-> IF Len(failed) = 0 THEN "success" ELSE "partial",
                message |-> IF Len(failed) = 0
                            THEN "All CCIP chain connections configured successfully"
                            ELSE "connections successful",
                connection_results |->
                   [source_chain |-> i.input.network,
                    total_connections |-> Len(connections),
                    successful_connections |-> Len(successful),
                    failed_connections |-> Len(failed),
                    connections |-> connections]]
      [] i.tool = "asetta_validate_ccip_setup" ->
            LET checks == {"minter", "burner", "linked", "token", "router"}
                          \cup (IF i.input.option THEN {"chains"} ELSE {})
                passed == i.flags \cap checks
            IN [status |-> IF passed = checks THEN "success" ELSE "warning",
                message |-> "CCIP setup validation completed",
                validation_summary |->
                   [total_checks |-> Cardinality(checks),
                    passed_checks |-> Cardinality(passed),
                    failed_checks |-> Cardinality(checks) - Cardinality(passed)]]
      [] OTHER -> [status |-> Tool(i.tool).ok, message |-> <<i.tool, "done">>]

\* the handler ends: its finally block, then the callback builds the response
Finish(i, outcome, throughTry) ==
    [i EXCEPT !.phase = "responded",
              !.out = {},
              !.disconnects = IF throughTry /\ Tool(i.tool).finally THEN @ + 1 ELSE @,
              !.outcome = outcome,
              !.response = Callback(outcome)]

\* a catch block whose envelope carries the error only
HandlerCatchBare(i, k, err) ==
    LET f == [i EXCEPT !.failedAt = k] IN
    IF k < Tool(i.tool).tryFrom
    THEN Finish(f, [kind |-> "throw", error |-> err], FALSE)
    ELSE IF Tool(i.tool).catch = "rethrow"
    THEN Finish(f, [kind |-> "throw",
                    error |-> Error(<<"Failed:", i.tool, MessageOf(err)>>)], TRUE)
    ELSE Finish(f, [kind |-> "return",
                    value |-> [status |-> "error", error |-> MessageOf(err)]], TRUE)

\* a catch block that re-throws in every handler
HandlerCatchRethrows(i, k, err) ==
    LET f == [i EXCEPT !.failedAt = k] IN
    IF k < Tool(i.tool).tryFrom
    THEN Finish(f, [kind |-> "throw", error |-> err], FALSE)
    ELSE Finish(f, [kind |-> "throw",
                    error |-> Error(<<"Failed:", i.tool, MessageOf(err)>>)], TRUE)

\* an exception reaches the handler's own level at stage k: outside the try
\* it escapes as it is, inside it the catch block re-throws or returns
HandlerCatch(i, k, err) ==
    LET f == [i EXCEPT !.failedAt = k] IN
    IF k < Tool(i.tool).tryFrom
    THEN Finish(f, [kind |-> "throw", error |-> err], FALSE)
    ELSE IF Tool(i.tool).catch = "rethrow"
    THEN Finish(f, [kind |-> "throw",
                    error |-> Error(<<"Failed:", i.tool, MessageOf(err)>>)], TRUE)
    ELSE Finish(f, [kind |-> "return",
                    value |-> [status |-> "error",
                               message |-> <<i.tool, "failed">>,
                               error |-> MessageOf(err)]], TRUE)

Holds(cond, i) ==
    CASE cond = "always"       -> TRUE
      [] cond = "option"       -> i.input.option
      [] cond = "chainUpdates" -> Len(chainUpdates(i.input)) > 0

Passes(pre, i) ==
    CASE pre = None         -> TRUE
      [] pre = "accessKey"  -> i.input.access_key # None \/ accessKey # None
      [] pre = "sourcePool" -> i.input.network \in i.input.poolAddresses

\* the host in the apiUrl of a REST tool
ApiHost(tool) ==
    IF tool = "asetta_get_profile" THEN "www.asetta.xyz" ELSE "asetta.xyz"

\* the arguments a call is made with, for the calls whose arguments the
\* handler computes
Args(i, c) ==
    CASE i.tool = "asetta_connect_ccip_chains" /\ c.name = "applyChainUpdates"
            /\ c.kind = "write" ->
            LET updates == chainUpdates(i.input) IN
            [remove |-> <<>>,
             add |-> [k \in 1..Len(updates) |-> chainUpdate(i.input, updates[k])]]
      [] i.tool = "asetta_send_native_ip" /\ c.name = "sendTransaction"
            /\ c.kind = "write" ->
            [to |-> i.input.to,
             value |-> parseEther(i.input.amount[1]),
             gas |-> Kept(i, "estimateGas")]
      [] i.tool = "asetta_approve_token" /\ c.name \in {"simulateContract", "approve"} ->
            [functionName |-> "approve", amount |-> approveAmount(i.input)]
      [] i.tool = "asetta_transfer_rwa_cross_chain" /\ c.name = "getFee" ->
            [address |-> CHAINLINK_NETWORKS[i.walletAgent.network].routerAddress,
             destinationChainSelector |-> BigInt(i.input.destination_chain_selector),
             message |-> TransferMessage(i.walletAgent.network, i.input)]
      [] i.tool = "asetta_transfer_rwa_cross_chain" /\ c.name = "ccipSend"
            /\ c.kind = "write" ->
            [address |-> CHAINLINK_NETWORKS[i.walletAgent.network].routerAddress,
             destinationChainSelector |-> BigInt(i.input.destination_chain_selector),
             message |-> TransferMessage(i.walletAgent.network, i.input),
             value |-> IF useNativeForPayment(i.input) THEN Kept(i, "getFee") ELSE 0]
      [] i.tool = "asetta_get_cross_chain_fee" /\ c.name = "getFee" ->
            [address |-> CHAINLINK_NETWORKS[i.walletAgent.network].routerAddress,
             destinationChainSelector |-> BigInt(i.input.destination_chain_selector),
             message |-> GetFeeMessage(i.walletAgent.network, i.input)]
      [] OTHER -> <<>>

\* the call as it leaves through the agent's clients
Issue(i, c) ==
    CASE c.kind = "write" ->
            [name |-> c.name, kind |-> c.kind, args |-> Args(i, c),
             chain |-> i.walletAgent.walletClient.chain,
             transport |-> i.walletAgent.walletClient.transport,
             signer |-> i.walletAgent.walletClient.account]
      [] c.kind \in {"read", "wait"} ->
            [name |-> c.name, kind |-> c.kind, args |-> Args(i, c),
             chain |-> i.walletAgent.publicClient.chain,
             transport |-> i.walletAgent.publicClient.transport,
             signer |-> None]
      [] OTHER ->
            [name |-> c.name, kind |-> c.kind, args |-> Args(i, c), chain |-> None,
             transport |-> ApiHost(i.tool), signer |-> None]

Logged(c) == c.kind \in {"write", "http"}

RECURSIVE Run(_, _)
\* the handler runs on from stage k up to its next await, or to its end
Run(i, k) ==
    LET prog == Tool(i.tool) IN
    IF k > Len(prog.stages)
    THEN Finish(i, [kind |-> "return", value |-> ResultOf(i)], TRUE)
    ELSE LET s == prog.stages[k] IN
         IF ~Holds(s.when, i) THEN Run(i, k + 1)
         ELSE IF ~Passes(s.pre, i) THEN HandlerCatch(i, k, Error(<<s.pre, "is required">>))
         ELSE IF Len(s.calls) = 0 THEN Run(i, k + 1)
         ELSE [i EXCEPT !.st = k,
                        !.out = {Issue(i, s.calls[j]) : j \in 1..Len(s.calls)},
                        !.attempted = @ \o SelectSeq([j \in 1..Len(s.calls) |-> s.calls[j]], Logged)]

\* an inner catch that runs its step again
RaiseRetrying(i, k, err, name) ==
    LET s == Tool(i.tool).stages[k] IN
    IF s.try = "inner"
    THEN Run([i EXCEPT !.out = {},
                       !.caught = IF s.calls[1].kind \in {"write", "wait"}
                                  THEN @ \cup {name} ELSE @],
             CASE s.calls[1].kind = "write" -> k
               [] s.calls[1].kind = "wait"  -> k - 1
               [] OTHER                     -> s.next)
    ELSE HandlerCatch([i EXCEPT !.out = {}], k, err)

\* an awaited call of stage k throws err
Raise(i, k, err, name) ==
    LET s == Tool(i.tool).stages[k] IN
    IF s.try = "inner"
    THEN Run([i EXCEPT !.out = {},
                       !.caught = IF s.calls[1].kind \in {"write", "wait"}
                                  THEN @ \cup {name} ELSE @], s.next)
    ELSE HandlerCatch([i EXCEPT !.out = {}], k, err)

\* the answers the network can give to a call: it throws, or it answers with
\* data of one of the classes the handler tells apart
Answers(s, c, last) ==
    {[outcome |-> "fail", data |-> IF c.name \in s.keep THEN 0 ELSE "pass", error |-> e] :
        e \in Throwables}
    \cup {[outcome |-> o, data |-> d, error |-> Error(<<"none">>)] :
            o \in IF c.kind = "wait" THEN {"success", "reverted"} ELSE {"ok"},
            d \in IF c.name \in s.keep THEN Values(c.name)
                  ELSE IF last /\ s.alt # None /\ s.check = None THEN {"pass", "decline"}
                  ELSE {"pass"}}

\* the handler resumes with the answer a to its outstanding call c
Resume(i, c, a) ==
    LET k == i.st
        s == Tool(i.tool).stages[k]
        rest == i.out \ {c}
        i1 == [i EXCEPT !.out = rest,
                        !.receipts = IF c.kind = "wait"
                                     THEN @ \cup {[name |-> c.name, status |-> a.outcome]}
                                     ELSE @,
                        !.data = IF c.name \in s.keep THEN @ \cup {<<c.name, a.data>>}
                                 ELSE @]
        declines == IF s.check # None THEN Takes(s.check, i1)
                    ELSE IF c.name \in s.keep THEN FALSE
                    ELSE a.data = "decline"
        flagged == [i1 EXCEPT !.flags = IF s.flag # None THEN @ \cup {s.flag} ELSE @,
                              !.hashes = IF s.push THEN Append(@, c.name) ELSE @]
    IN  IF a.outcome = "fail" THEN Raise(i, k, a.error, c.name)
        ELSE IF rest # {} THEN i1
        ELSE IF a.outcome = "reverted" /\ s.receipt = "throw"
             THEN Raise(i1, k, Error(<<"transaction failed">>), c.name)
        ELSE IF declines
             THEN CASE s.alt = "throw"  -> Raise([i1 EXCEPT !.declinedAt = k], k,
                                                 Error(<<"declined">>), c.name)
                    [] s.alt = "return" -> Finish([i1 EXCEPT !.declinedAt = k],
                                                  [kind |-> "return",
                                                       value |-> [status |-> "success",
                                                                  message |-> <<i.tool, "nothing to do">>]], TRUE)
                    [] OTHER            -> Run(i1, k + 1)
        ELSE Run(flagged, k + 1)

NewInvocation(name, input, walletAgent) ==
    [phase |-> "running", tool |-> name, input |-> input,
     walletAgent |-> walletAgent, st |-> 0, out |-> {},
     attempted |-> <<>>, caught |-> {}, flags |-> {}, hashes |-> <<>>,
     receipts |-> {}, data |-> {}, disconnects |-> 0, failedAt |-> 0, declinedAt |-> 0,
     outcome |-> Unset, response |-> Unset]

\* the hosts of the HTTP requests an invocation has outstanding
HostsOf(i) ==
    IF i.phase = "running"
    THEN {c.transport : c \in {d \in i.out : d.kind = "http"}}
    ELSE {}

\* The transport hands a request for a registered tool, with an input that
\* passed the schema, to the tool's callback; the handler runs to its first await.
Dispatch(name, input) ==
    /\ proc = "serving"
    /\ inv = Idle
    /\ served < MaxRequests
    /\ name \in tools
    /\ LET sel == SelectAgent(Tool(name).agent, agent, input) IN
       /\ agent' = sel.agent
       /\ inv' = Run(NewInvocation(name, input, sel.walletAgent), 1)
    /\ served' = served + 1
    /\ overridden' = (overridden \/ (input.network # None /\ input.network # network))
    /\ UNCHANGED <<argv, proc, configVars, generated, tools, failedBefore>>

\* The network answers one outstanding call and the handler resumes.
Complete(c, a) ==
    /\ inv.phase = "running"
    /\ c \in inv.out
    /\ inv' = Resume(inv, c, a)
    /\ UNCHANGED <<argv, proc, configVars, generated, agent, tools, served,
                   failedBefore, overridden>>

\* The transport sends the response; nothing of the invocation is kept.
Deliver ==
    /\ inv.phase = "responded"
    /\ inv' = Idle
    /\ failedBefore' = (failedBefore \/ inv.failedAt > 0 \/ inv.caught # {})
    /\ UNCHANGED <<argv, proc, configVars, generated, agent, tools, served, overridden>>

Next ==
    \/ LoadConfig
    \/ Main
    \/ \E name \in WalletToolNames \cup ApiToolNames :
         \E input \in Requests[name] : Dispatch(name, input)
    \/ \E c \in (IF inv.phase = "running" THEN inv.out ELSE {}) :
         \E a \in Answers(Tool(inv.tool).stages[inv.st], c, Cardinality(inv.out) = 1) :
            Complete(c, a)
    \/ Deliver

Spec == Init /\ [][Next]_vars



(***************************************************************************)
(* Properties                                                              *)
(***************************************************************************)
Responded == inv.phase = "responded"

Running == inv.phase = "running"

IsError(r) == "isError" \in DOMAIN r /\ r.isError = TRUE

Reverted(i) == \E r \in i.receipts : r.status = "reverted"

UsesClient(i) == Tool(i.tool).agent # "unused"

\* C1: the callback answers every invocation with a response: one text item
\* holding the JSON of the handler's value and no isError when the handler
\* returned; isError true and the Error's message, or 'Unknown error
\* occurred' for a thrown value that is no Error, when the handler threw.
CallbackTotal ==
    Responded =>
        LET o == inv.outcome
            r == inv.response
        IN /\ Len(r.content) = 1
           /\ r.content[1].type = "text"
           /\ o.kind \in {"return", "throw"}
           /\ o.kind = "return" =>
                /\ DOMAIN r = {"content"}
                /\ r.content[1].text = Stringify(o.value)
           /\ o.kind = "throw" =>
                /\ IsError(r)
                /\ r.content[1].text = IF o.error.instance THEN o.error.message
                                       ELSE <<"Unknown error occurred">>

CallbackTotalWitness ==
    /\ Responded
    /\ inv.outcome.kind = "throw"
    /\ ~inv.outcome.error.instance
    /\ inv.response.content[1].text = <<"Unknown error occurred">>

\* C2 as stated: an invocation in which a call failed at the handler's level,
\* or a transaction was mined as reverted, is answered with isError true.
FailureIsRethrown ==
    (Responded /\ (inv.failedAt > 0 \/ Reverted(inv))) => IsError(inv.response)

\* C2: a failure at the handler's level is answered with isError true by the
\* handlers whose catch re-throws, and by the primary-sales and mark tools
\* when their connect fails; the four CCIP setup tools always, and the
\* primary-sales and mark tools for a failed contract call, return a value
\* with status "error" and no isError.  A reverted transaction alone never
\* makes an answer an error.
FailureIsRethrownOrEnveloped ==
    LET SetupTools == {"asetta_deploy_ccip_pool", "asetta_configure_ccip_roles",
                       "asetta_connect_ccip_chains", "asetta_validate_ccip_setup"}
        LateTryTools == {"asetta_mark_ccip_configured", "asetta_register_primary_sales",
                         "asetta_activate_primary_sales"}
        enveloped == \/ inv.tool \in SetupTools
                     \/ inv.tool \in LateTryTools /\ inv.failedAt > 1
    IN Responded =>
        /\ (inv.failedAt > 0 /\ enveloped) =>
                /\ ~IsError(inv.response)
                /\ inv.outcome.kind = "return"
                /\ inv.outcome.value.status = "error"
        /\ (inv.failedAt > 0 /\ ~enveloped) =>
                /\ IsError(inv.response)
                /\ inv.outcome.kind = "throw"
        /\ (inv.failedAt = 0 /\ Reverted(inv)) =>
                /\ ~IsError(inv.response)
                /\ inv.outcome.value.status # "error"

FailureIsRethrownOrEnvelopedWitness ==
    /\ Responded
    /\ inv.tool = "asetta_activate_primary_sales"
    /\ inv.failedAt = 2
    /\ ~IsError(inv.response)
    /\ inv.outcome.value.status = "error"

RoleSteps ==
    <<"grantRole_MINTER", "grantRole_BURNER", "registerAdminViaGetCCIPAdmin",
      "acceptAdminRole", "setPool">>

InRoles == inv.phase \in {"running", "responded"} /\ inv.tool = "asetta_configure_ccip_roles"

RoleStepsSoFar ==
    InRoles =>
        /\ Len(inv.attempted) <= Len(RoleSteps)
        /\ \A j \in 1..Len(inv.attempted) :
              inv.attempted[j] = [name |-> RoleSteps[j], kind |-> "write"]
        /\ (Responded /\ inv.failedAt = 0) => Len(inv.attempted) = Len(RoleSteps)

RoleFlagsKept ==
    (InRoles /\ Running) =>
        /\ inv.flags \subseteq inv'.flags
        /\ Len(inv.hashes) <= Len(inv'.hashes)
        /\ SubSeq(inv'.hashes, 1, Len(inv.hashes)) = inv.hashes

\* C3: asetta_configure_ccip_roles issues its five writes in program order,
\* each once; once connected it attempts all five whatever their outcomes,
\* and a flag that was set stays set.
FiveStepsInOrder == []RoleStepsSoFar /\ [][RoleFlagsKept]_vars

FiveStepsInOrderWitness ==
    /\ Responded
    /\ inv.tool = "asetta_configure_ccip_roles"
    /\ "grantRole_MINTER" \in inv.caught
    /\ "burner_role_granted" \in inv.flags
    /\ "acceptAdminRole" \in inv.caught
    /\ "pool_linked" \in inv.flags
    /\ Len(inv.attempted) = 5

\* C4: once connected, asetta_configure_ccip_roles answers 'success' exactly
\* when all five flags are true and 'partial' otherwise, and
\* total_transactions is the number of flags that are true.
RolesStatusMatchesFlags ==
    (Responded /\ inv.tool = "asetta_configure_ccip_roles" /\ inv.failedAt = 0) =>
        LET v == inv.outcome.value
            r == v.configuration_results
            flagsOf == <<r.minter_role_granted, r.burner_role_granted, r.admin_registered,
                         r.admin_accepted, r.pool_linked>>
            trueFlags == Cardinality({j \in 1..5 : flagsOf[j]})
        IN /\ ~IsError(inv.response)
           /\ v.status \in {"success", "partial"}
           /\ v.status = "success" <=> trueFlags = 5
           /\ v.status = "partial" <=> trueFlags < 5
           /\ r.total_transactions = trueFlags
           /\ Len(r.transaction_hashes) = trueFlags

RolesStatusMatchesFlagsWitness ==
    /\ Responded
    /\ inv.tool = "asetta_configure_ccip_roles"
    /\ inv.outcome.kind = "return"
    /\ inv.outcome.value.status = "partial"
    /\ inv.outcome.value.configuration_results.total_transactions = 4
    /\ ~inv.outcome.value.configuration_results.pool_linked

\* C5: within one invocation no contract write and no HTTP request is issued
\* twice, so a step that failed is not attempted again; an invocation
\* begins with nothing recorded of the invocations before it.
NoReattempt ==
    inv.phase \in {"running", "responded"} =>
        /\ \A j, k \in 1..Len(inv.attempted) : inv.attempted[j] = inv.attempted[k] => j = k
        /\ (Running /\ inv.st = 1) =>
              /\ inv.caught = {} /\ inv.flags = {} /\ inv.receipts = {}
              /\ inv.hashes = <<>> /\ inv.failedAt = 0
              /\ Len(inv.attempted) <= 1

NoReattemptWitness ==
    /\ failedBefore
    /\ Responded
    /\ inv.caught # {}
    /\ \E j \in 1..Len(inv.attempted) :
          /\ inv.attempted[j].name \in inv.caught
          /\ j < Len(inv.attempted)

AlwaysDisconnects ==
    (Responded /\ UsesClient(inv)) => inv.disconnects >= 1

ConfiguredNetworkServes ==
    LET configured == networkConfigs[getNetwork(argv)] IN
    /\ (Running /\ UsesClient(inv) /\ inv.input.network = None) =>
            /\ inv.walletAgent = agent
            /\ \A c \in inv.out : /\ c.chain = configured.chainId
                                  /\ c.transport = configured.rpcProviderUrl
    /\ (proc = "serving" /\ agentMode = "tokenization") =>
            /\ network = getNetwork(argv)
            /\ agent.network = network
            /\ agent.networkInfo = configured
            /\ agent.publicClient = publicClient
            /\ agent.walletClient = walletClient

DefaultsKept ==
    proc = "serving" =>
        UNCHANGED <<network, networkInfo, account, publicClient, walletClient, agent>>

\* C8: while the server serves, the configured network, networkInfo, account
\* and clients and the shared agent never change, whatever network an
\* invocation names; an invocation that names none works on the configured
\* network.
OverrideLeavesDefaults == []ConfiguredNetworkServes /\ [][DefaultsKept]_vars

OverrideLeavesDefaultsWitness ==
    /\ overridden
    /\ Running
    /\ inv.input.network = None
    /\ Tool(inv.tool).agent = "optional"
    /\ \E c \in inv.out : c.kind = "write"

\* C9: the agent an invocation works with names one network, and its
\* networkInfo and both clients are that network's: the one the input names,
\* else the configured one; every read, write and receipt wait of the
\* invocation goes to it.
AgentOnOneNetwork ==
    (Running /\ UsesClient(inv)) =>
        LET wa == inv.walletAgent
            target == IF inv.input.network # None THEN inv.input.network ELSE network
            cfg == networkConfigs[target]
        IN /\ wa.network = target
           /\ wa.networkInfo = cfg
           /\ wa.publicClient.chain = cfg.chainId
           /\ wa.publicClient.transport = cfg.rpcProviderUrl
           /\ wa.walletClient.chain = cfg.chainId
           /\ wa.walletClient.transport = cfg.rpcProviderUrl
           /\ \A c \in inv.out : /\ c.chain = cfg.chainId
                                 /\ c.transport = cfg.rpcProviderUrl

AgentOnOneNetworkWitness ==
    /\ Running
    /\ inv.input.network \in NetworkType \ {network}
    /\ inv.walletAgent.network = inv.input.network
    /\ \E c \in inv.out : c.kind = "write" /\ c.chain = networkConfigs[inv.input.network].chainId

\* C10: the account is the one config.ts computed when it was loaded;
\* validateEnvironment leaves it in place, and every transaction, on the
\* configured network or another, is signed by it.
SingleSigner ==
    LET atStartup == getAccount(argv, 0) IN
    /\ proc \in {"main", "serving"} =>
          /\ account = atStartup
          /\ walletClient.account = atStartup
    /\ (proc = "serving" /\ agentMode = "tokenization") => agent.account = atStartup
    /\ Running => \A c \in inv.out : c.kind = "write" => c.signer = atStartup

SingleSignerWitness ==
    /\ argv.wallet_private_key = None
    /\ generated = 2
    /\ Running
    /\ inv.input.network \in NetworkType \ {network}
    /\ \E c \in inv.out : c.kind = "write" /\ c.signer = account

InInvocation == inv.phase \in {"running", "responded"}

\* C11: asetta_validate_ccip_setup only reads: none of its calls is a
\* write or a receipt wait, whatever its checks find, and it records no
\* transaction.
ValidateOnlyReads ==
    (InInvocation /\ inv.tool = "asetta_validate_ccip_setup") =>
        /\ \A c \in inv.out : c.kind = "read" /\ c.signer = None
        /\ inv.attempted = <<>>
        /\ inv.receipts = {}
        /\ inv.hashes = <<>>

ValidateOnlyReadsWitness ==
    /\ Responded
    /\ inv.tool = "asetta_validate_ccip_setup"
    /\ inv.outcome.kind = "return"
    /\ inv.outcome.value.status = "warning"
    /\ inv.outcome.value.validation_summary.passed_checks = 3
    /\ inv.outcome.value.validation_summary.failed_checks = 3

DeclinedOnRead(i) ==
    /\ i.declinedAt > 0
    /\ \A j \in DOMAIN Tool(i.tool).stages[i.declinedAt].calls :
          Tool(i.tool).stages[i.declinedAt].calls[j].kind = "read"

HasWrite(i) == \E j \in 1..Len(i.attempted) : i.attempted[j].kind = "write"

\* C12 as stated: no handler ends an invocation because of what it read
\* from the chain.
NeverDeclinesOnReads ==
    InInvocation => ~DeclinedOnRead(inv)

\* C12: only asetta_send_native_ip, asetta_send_token and
\* asetta_approve_token withhold their transaction because of what they
\* read (balance, gas cost, allowance), and asetta_get_rwa_project throws
\* for a project that does not exist; every other handler, once no call of
\* it has failed, has issued each of its contract writes.
DeclinesOnlyOnBalanceOrAllowance ==
    LET DeclineTools == {"asetta_send_native_ip", "asetta_send_token", "asetta_approve_token"}
        stages == Tool(inv.tool).stages
    IN InInvocation =>
        /\ DeclinedOnRead(inv) => inv.tool \in DeclineTools \cup {"asetta_get_rwa_project"}
        /\ (DeclinedOnRead(inv) /\ inv.tool \in DeclineTools) => ~HasWrite(inv)
        /\ (Responded /\ inv.failedAt = 0 /\ inv.declinedAt = 0) =>
              \A k \in DOMAIN stages :
                 \A j \in DOMAIN stages[k].calls :
                    (stages[k].calls[j].kind = "write" /\ Holds(stages[k].when, inv)) =>
                        \E n \in 1..Len(inv.attempted) : inv.attempted[n] = stages[k].calls[j]

DeclinesOnlyOnBalanceOrAllowanceWitness ==
    /\ Responded
    /\ inv.tool = "asetta_send_native_ip"
    /\ inv.declinedAt = 4
    /\ ~HasWrite(inv)
    /\ IsError(inv.response)

\* C13 as stated: the configured network is the --network value when that
\* is one of the three networks and avalancheFuji when the flag is absent;
\* with any other value the import ends with 'Invalid network'.
NetworkFlagDecides ==
    /\ proc \in {"main", "serving"} =>
          \/ argv.network \in NetworkType /\ network = argv.network
          \/ argv.network = None /\ network = "avalancheFuji"
    /\ argv.network \notin NetworkType \cup {None} => proc \in {"load", "exited"}

\* C14: the wallet tool set is registered and run with a WalletAgent exactly
\* when --agent_mode is 'tokenization'; otherwise the API tool set is
\* registered and run with an ApiAgent.
AgentModeDecides ==
    proc = "serving" =>
        IF argv.agent_mode = "tokenization"
        THEN /\ tools = WalletToolNames
             /\ agent = WalletAgent(None)
             /\ InInvocation => inv.tool \in WalletToolNames
        ELSE /\ tools = ApiToolNames
             /\ agent = [kind |-> "ApiAgent"]
             /\ InInvocation => inv.tool \in ApiToolNames

AgentModeDecidesWitness ==
    /\ proc = "serving"
    /\ argv.agent_mode = None
    /\ Running
    /\ inv.tool = "asetta_get_profile"
    /\ \E c \in inv.out : c.kind = "http"

OneBackendHost ==
    Running => HostsOf(inv) \subseteq {ApiHost("asetta_get_rwa_projects")}

Mined(i, name) == [name |-> name, status |-> "success"] \in i.receipts

Returned(tool) ==
    /\ Responded
    /\ inv.tool = tool
    /\ inv.outcome.kind = "return"
    /\ inv.outcome.value.status # "error"

\* C17 as stated: a handler returns status 'success' only if every
\* transaction it submitted was mined with receipt status success, and
\* asetta_configure_ccip_roles sets a step's flag only then.
SuccessOnlyIfMined ==
    (Responded /\ inv.outcome.kind = "return") =>
        /\ inv.outcome.value.status = "success" =>
              \A j \in 1..Len(inv.attempted) :
                 inv.attempted[j].kind = "write" => Mined(inv, inv.attempted[j].name)
        /\ inv.tool = "asetta_configure_ccip_roles" =>
              \A j \in 1..Len(inv.hashes) : Mined(inv, inv.hashes[j])

Count(seq, Test(_)) == Cardinality({k \in DOMAIN seq : Test(seq[k])})

ConnectionsOf(i) == i.outcome.value.connection_results.connections

\* C18: asetta_connect_ccip_chains reports a target as connected only if a
\* chain update was built for it and the applyChainUpdates transaction was
\* mined with status success; the source chain, a target without pool or
\* token address, and any target when the updates could not be encoded,
\* are never reported as connected.
ConnectedOnlyIfApplied ==
    Returned("asetta_connect_ccip_chains") =>
        \A k \in DOMAIN ConnectionsOf(inv) :
           ConnectionsOf(inv)[k].connected =>
              LET t == ConnectionsOf(inv)[k].target_chain
                  updates == chainUpdates(inv.input)
              IN /\ Mined(inv, "applyChainUpdates")
                 /\ \E j \in DOMAIN updates : updates[j] = t
                 /\ t # inv.input.network
                 /\ t \in inv.input.poolAddresses \cap inv.input.tokenAddresses
                 /\ inv.input.encodable

ConnectedOnlyIfAppliedWitness ==
    /\ Returned("asetta_connect_ccip_chains")
    /\ Len(ConnectionsOf(inv)) = 2
    /\ \E k \in DOMAIN ConnectionsOf(inv) : ConnectionsOf(inv)[k].connected
    /\ \E k \in DOMAIN ConnectionsOf(inv) :
          /\ ~ConnectionsOf(inv)[k].connected
          /\ ConnectionsOf(inv)[k].target_chain \notin inv.input.tokenAddresses
          /\ ConnectionsOf(inv)[k].target_chain # inv.input.network

\* C19 as stated: in every result of asetta_connect_ccip_chains other than
\* an error each requested target appears once among the connections, so
\* total_connections is the number of targets.
EachTargetOnce ==
    Returned("asetta_connect_ccip_chains") =>
        /\ inv.outcome.value.connection_results.total_connections = Len(inv.input.targetChains)
        /\ \A t \in NetworkType :
              Count(ConnectionsOf(inv), LAMBDA c : c.target_chain = t)
                 = Count(inv.input.targetChains, LAMBDA x : x = t)

\* C20 as stated: asetta_connect_ccip_chains returns 'success' only if an
\* applyChainUpdates transaction was mined and at least one target is
\* connected.
SuccessNeedsConnection ==
    (Returned("asetta_connect_ccip_chains") /\ inv.outcome.value.status = "success") =>
        /\ Mined(inv, "applyChainUpdates")
        /\ inv.outcome.value.connection_results.successful_connections >= 1

OutstandingCalls == IF Running THEN inv.out ELSE {}

Submitted(tool, name) ==
    {c \in OutstandingCalls : inv.tool = tool /\ c.name = name /\ c.kind = "write"}

\* C21 as stated: every chain update asetta_connect_ccip_chains submits has
\* its outbound and its inbound rate limiter enabled, with capacity 100000
\* and rate 167 when rateLimitConfig is omitted and with the caller's
\* capacity and rate when it is given.
RateLimitersEnabled ==
    \A c \in Submitted("asetta_connect_ccip_chains", "applyChainUpdates") :
        \A k \in DOMAIN c.args.add :
            \A limiter \in {c.args.add[k].outboundRateLimiterConfig,
                             c.args.add[k].inboundRateLimiterConfig} :
                /\ limiter.isEnabled = <<TRUE>>
                /\ limiter.capacity =
                      IF inv.input.rateLimitConfig = <<>> THEN <<100000>>
                      ELSE <<inv.input.rateLimitConfig[1].capacity>>
                /\ limiter.rate =
                      IF inv.input.rateLimitConfig = <<>> THEN <<167>>
                      ELSE <<inv.input.rateLimitConfig[1].rate>>

HasRead(i, names) == names \subseteq {d[1] : d \in i.data}

\* what asetta_send_native_ip needs for the transfer and its gas, once the
\* gas estimate and the gas price are read
TotalNeeded(i) ==
    parseEther(i.input.amount[1]) + Kept(i, "estimateGas") * Kept(i, "getGasPrice")

\* C22: asetta_send_native_ip submits the transfer only after it has read
\* the balance, the gas estimate and the gas price, and only when the
\* balance covers amount + gasEstimate * gasPrice; when the balance read is
\* less, the invocation fails and no transaction was sent.
SendsOnlyWhatBalanceCovers ==
    /\ \A c \in Submitted("asetta_send_native_ip", "sendTransaction") :
          /\ HasRead(inv, {"getBalance", "estimateGas", "getGasPrice"})
          /\ c.args.value = parseEther(inv.input.amount[1])
          /\ Kept(inv, "getBalance") >= TotalNeeded(inv)
    /\ (/\ Responded
        /\ inv.tool = "asetta_send_native_ip"
        /\ HasRead(inv, {"getBalance", "estimateGas", "getGasPrice"})
        /\ Kept(inv, "getBalance") < TotalNeeded(inv))
         => (inv.outcome.kind = "throw" /\ ~HasWrite(inv))

\* the balance covers the amount but not the gas: the invocation has failed
\* and nothing was sent
SendsOnlyWhatBalanceCoversWitness ==
    /\ Responded
    /\ inv.tool = "asetta_send_native_ip"
    /\ HasRead(inv, {"getBalance", "estimateGas", "getGasPrice"})
    /\ Kept(inv, "getBalance") >= parseEther(inv.input.amount[1])
    /\ Kept(inv, "getBalance") < TotalNeeded(inv)
    /\ inv.outcome.kind = "throw"
    /\ ~HasWrite(inv)

Outstanding(tool, name) ==
    {c \in OutstandingCalls : inv.tool = tool /\ c.name = name}

\* C23 as stated: asetta_transfer_rwa_cross_chain sends with the fee token
\* chosen in the order custom, native, LINK, after it has read getFee, and
\* attaches the fee just read as native value exactly when the fee token
\* of the message is the zero address, and 0 otherwise.
NativeValueIffZeroAddress ==
    \A c \in Submitted("asetta_transfer_rwa_cross_chain", "ccipSend") :
        /\ c.args.message.feeToken =
              (IF inv.input.fee_token_address # None THEN inv.input.fee_token_address
               ELSE IF inv.input.use_native_fee # <<FALSE>> THEN ZeroAddress
               ELSE CHAINLINK_NETWORKS[inv.walletAgent.network].linkAddress)
        /\ HasRead(inv, {"getFee"})
        /\ c.args.value = (IF c.args.message.feeToken = ZeroAddress
                           THEN Kept(inv, "getFee") ELSE 0)

\* the input of one of the two tools with the recipient under the name the
\* other tool gives it
AsTransferInput(input) ==
    [input EXCEPT !.to = input.destination_account, !.destination_account = None]

AsFeeInput(input) ==
    [input EXCEPT !.destination_account = input.to, !.to = None]

\* C24: on the same network and for the same arguments (the recipient is
\* called to by the transfer and destination_account by the quote) the
\* message and the selector asetta_transfer_rwa_cross_chain gives to getFee
\* and to ccipSend are the ones asetta_get_cross_chain_fee gives to getFee.
QuoteIsForTheMessageSent ==
    /\ \A name \in {"getFee", "ccipSend"} :
          \A c \in Outstanding("asetta_transfer_rwa_cross_chain", name) :
             c.kind # "wait" =>
                /\ c.args.message = GetFeeMessage(inv.walletAgent.network,
                                                  AsFeeInput(inv.input))
                /\ c.args.destinationChainSelector
                      = BigInt(AsFeeInput(inv.input).destination_chain_selector)
    /\ \A c \in Outstanding("asetta_get_cross_chain_fee", "getFee") :
          /\ c.args.message = TransferMessage(inv.walletAgent.network,
                                              AsTransferInput(inv.input))
          /\ c.args.destinationChainSelector
                = BigInt(AsTransferInput(inv.input).destination_chain_selector)

\* a transfer is submitted with a custom fee token and a gas limit
QuoteIsForTheMessageSentWitness ==
    \E c \in Submitted("asetta_transfer_rwa_cross_chain", "ccipSend") :
        /\ c.args.message.feeToken = "0xFEE"
        /\ c.args.message.extraArgs # <<>>
        /\ c.args.message.tokenAmounts[1].amount = amountWei(1)

\* C25 as stated: asetta_approve_token approves the given amount when the
\* caller supplies one, and the unlimited allowance only when the caller
\* omits the amount or asks for unlimited.
ApprovesWhatWasAsked ==
    \A c \in Submitted("asetta_approve_token", "approve") :
        /\ (inv.input.amount # <<>> /\ inv.input.unlimited # <<TRUE>>)
              => c.args.amount = parseEther(inv.input.amount[1])
        /\ c.args.amount = maxUint256
              => (inv.input.amount = <<>> \/ inv.input.unlimited = <<TRUE>>)

=============================================================================
